---- MODULE Spec2Model ----
(***************************************************************************)
(* The bet placement and the redeeming behaviours of the decision maker    *)
(* skill (behaviours/bet_placement.py, behaviours/reedem.py).              *)
(*                                                                         *)
(* One behaviour instance runs per round.  Every external call (contract   *)
(* api request, subgraph query) is one action: the request is recorded,    *)
(* the response is drawn from the shapes the service can answer with, and  *)
(* the code following the response runs up to the next request.            *)
(***************************************************************************)
EXTENDS Integers, Sequences, FiniteSets, TLC

\* ------------------------------------------------------------------ bounds
MaxBalance == 2
MaxInvest == 2
MaxCand == 2
MaxPages == 2
MaxBatchSize == 2
MaxFailures == 2

\* ------------------------------------------------------- program constants
_ETHER_VALUE == 0
SAFE_GAS == 0
TX_HASH_LENGTH == 66
dust_threshold == 2

None == [none |-> TRUE]
agent_address == "agent"
multisend_address == "multisend"
collateral_token == "collateral_token"
market_maker_contract_address == "market_maker"
realitio_proxy_address == "realitio_proxy"
realitio_address == "realitio"
conditional_tokens_address == "conditional_tokens"
DELEGATE_CALL == "DELEGATE_CALL"
\* a block is a number or the tag "earliest"
DEFAULT_FROM_BLOCK == [tag |-> "earliest"]
RedeemRound == [auto_round_id |-> "redeem_round"]

VARIABLES
    behaviour,            \* which behaviour this run instantiates
    pc,                   \* the suspend point of async_act
    investment_amount,    \* params.get_bet_amount(confidence)
    redeeming_batch_size, \* params.redeeming_batch_size
    balance, buy_amount, multisend_batches, multisend_data, safe_tx_hash,
    payload,              \* the payload built by async_act
    sent,                 \* payloads handed to finish_behaviour
    invoked,              \* the steps requested so far in this run
    succeeded,            \* the steps that have returned True in this run
    failures,             \* how many times in a row the awaited step returned False
    response,             \* the latest contract api response a step has handled
    encode_request,       \* multi_send_txs of the latest get_tx_data request
    hash_request,         \* kwargs of the latest safe tx hash request
    fetch_status, creators_left, fetched,
    redeem_info, payouts, idx, current_redeem_info, already_resolved,
    from_block, built_data, expected_winnings, winnings_found,
    resolutions           \* per processed candidate, what check_resolved said

betVars == <<balance, buy_amount>>
txVars == <<multisend_batches, multisend_data, safe_tx_hash>>
reqVars == <<encode_request, hash_request>>
fetchVars == <<fetch_status, creators_left, fetched>>
redeemVars == <<redeem_info, payouts, idx, current_redeem_info, already_resolved,
                from_block, built_data, expected_winnings, winnings_found,
                resolutions>>
paramVars == <<behaviour, investment_amount, redeeming_batch_size>>
retryVars == <<invoked, succeeded, failures, response>>
vars == <<paramVars, pc, betVars, txVars, payload, sent, retryVars, reqVars,
          fetchVars, redeemVars>>

\* ----------------------------------------------------- the service boundary
\* A contract api response: a performative and a body that may lack the key.
Responses(expected, key, values) ==
    {[performative |-> "ERROR", body |-> None]}
        \cup {[performative |-> expected, body |-> None]}
        \cup {[performative |-> expected, body |-> [k \in {key} |-> v]] : v \in values}

\* body.get(key, None) is not None
HasKey(resp, key) == key \in DOMAIN resp.body

\* A text of hexadecimal digits with its "0x" prefix: its length and what it spells.
HexStr(len, text) == [len |-> len, text |-> text]

\* s[2:]
Strip0x(s) == [len |-> IF s.len >= 2 THEN s.len - 2 ELSE 0, text |-> s.text]

\* bytes.fromhex(s): two digits per byte
FromHex(s) == [nbytes |-> s.len \div 2, content |-> s.text]

\* MultisendBatch(to=..., data=HexBytes(...)): value defaults to 0
MultisendBatch(to, data) == [to |-> to, data |-> data, value |-> 0]

\* What the multisend contract answers for get_tx_data(multi_send_txs): the
\* "0x"-prefixed hex of the encoded transactions, two digits per encoded entry.
MultisendTxData(txs) == HexStr(2 + 2 * Len(txs), txs)

\* What the safe contract answers for get_raw_safe_transaction_hash: a digest
\* of the request; a correct one is TX_HASH_LENGTH characters long.
SafeTxHashes(req) ==
    {HexStr(n, req) : n \in {TX_HASH_LENGTH - 1, TX_HASH_LENGTH, TX_HASH_LENGTH + 1}}

\* hash_payload_to_hex(safe_tx_hash, ether_value, safe_tx_gas, to_address, data, operation)
hash_payload_to_hex(tx_hash, ether_value, safe_tx_gas, to_address, data, operation) ==
    [safe_tx_hash |-> tx_hash, ether_value |-> ether_value,
     safe_tx_gas |-> safe_tx_gas, to_address |-> to_address,
     operation |-> operation, data |-> data]

MultisigTxPayload(sender, tx_submitter, tx_hash) ==
    [sender |-> sender, tx_submitter |-> tx_submitter, tx_hash |-> tx_hash]

\* ------------------------------------------------------------ bet placement
sufficient_balance_inverted(bal, amount) == bal <= amount
sufficient_balance_strict(bal, amount) == bal > amount
\* BetPlacementBehaviour.sufficient_balance
sufficient_balance(bal, amount) == bal >= amount

BetStepsSwapped ==
    <<"_build_buy_tx", "_calc_buy_amount", "_build_approval_tx",
      "_build_multisend_data", "_build_safe_tx_hash">>
BetStepsEncodeEarly ==
    <<"_build_approval_tx", "_calc_buy_amount", "_build_multisend_data",
      "_build_buy_tx", "_build_safe_tx_hash">>
\* the steps of BetPlacementBehaviour._prepare_safe_tx, in order
BetSteps ==
    <<"_build_approval_tx", "_calc_buy_amount", "_build_buy_tx",
      "_build_multisend_data", "_build_safe_tx_hash">>

AfterStepRepeating(steps, step) == step
AfterStepStoppingEarly(steps, step) ==
    LET i == CHOOSE j \in 1..Len(steps) : steps[j] = step
    IN IF i + 1 < Len(steps) THEN steps[i + 1] ELSE "return"
\* wait_for_condition_with_sleep(step) returned: the next step of the loop
AfterStep(steps, step) ==
    LET i == CHOOSE j \in 1..Len(steps) : steps[j] = step
    IN IF i < Len(steps) THEN steps[i + 1] ELSE "return"

SafeTxRequestCall(data) ==
    [to_address |-> multisend_address, value |-> _ETHER_VALUE, data |-> data,
     safe_tx_gas |-> SAFE_GAS, operation |-> "CALL"]
\* the kwargs of the safe tx hash request
SafeTxRequest(data) ==
    [to_address |-> multisend_address, value |-> _ETHER_VALUE, data |-> data,
     safe_tx_gas |-> SAFE_GAS, operation |-> DELEGATE_CALL]

\* the hex _prepare_safe_tx returns
tx_hex(hash, data) ==
    hash_payload_to_hex(hash, _ETHER_VALUE, SAFE_GAS, multisend_address, data,
                        DELEGATE_CALL)

AttemptGivingUp(step, ok) ==
    /\ invoked' = invoked \cup {step}
    /\ succeeded' = IF ok THEN succeeded \cup {step} ELSE succeeded
    /\ failures' = IF ok THEN 0 ELSE failures + 1
    /\ ok \/ failures < MaxFailures
    /\ IF ok THEN TRUE
       ELSE pc' = IF failures' = MaxFailures THEN "finish_behaviour" ELSE step
AttemptAborting(step, ok) ==
    /\ invoked' = invoked \cup {step}
    /\ succeeded' = IF ok THEN succeeded \cup {step} ELSE succeeded
    /\ failures' = IF ok THEN 0 ELSE failures + 1
    /\ ok \/ failures < MaxFailures
    /\ IF ok THEN TRUE ELSE pc' = "finish_behaviour"
\* One turn of wait_for_condition_with_sleep(step): the step is requested and
\* returns `ok`; on False the controller sleeps and requests the same step
\* again, with no cutoff of its own (MaxFailures only bounds how many failures
\* in a row are followed); on True the caller goes on.
Attempt(step, ok) ==
    /\ invoked' = invoked \cup {step}
    /\ succeeded' = IF ok THEN succeeded \cup {step} ELSE succeeded
    /\ failures' = IF ok THEN 0 ELSE failures + 1
    /\ ok \/ failures < MaxFailures
    /\ IF ok THEN TRUE ELSE pc' = step

Bet(step) == behaviour = "bet" /\ pc = step

_check_balance ==
    /\ Bet("_check_balance")
    /\ \E resp \in Responses("RAW_TRANSACTION", "balance", 0..MaxBalance) :
         /\ response' = resp
         /\ IF resp.performative # "RAW_TRANSACTION" \/ ~HasKey(resp, "balance")
            THEN Attempt("_check_balance", FALSE) /\ UNCHANGED <<balance, payload>>
            ELSE /\ Attempt("_check_balance", TRUE)
                 /\ balance' = resp.body.balance
                 \* async_act: the sufficiency guard
                 /\ IF sufficient_balance(balance', investment_amount)
                    THEN pc' = BetSteps[1] /\ UNCHANGED payload
                    ELSE /\ payload' = MultisigTxPayload(agent_address, None, None)
                         /\ pc' = "finish_behaviour"
    /\ UNCHANGED <<paramVars, buy_amount, txVars, sent, reqVars, fetchVars, redeemVars>>

BuiltBatchEager(batches, resp, to) == Append(batches, MultisendBatch(to, resp.body))
\* the batch once _build_approval_tx or _build_buy_tx has handled `resp`: the
\* entry is appended only past the two early returns
BuiltBatch(batches, resp, to) ==
    IF resp.performative # "STATE" \/ ~HasKey(resp, "data") THEN batches
    ELSE Append(batches, MultisendBatch(to, resp.body.data))

_build_approval_tx ==
    /\ Bet("_build_approval_tx")
    /\ \E resp \in Responses("STATE", "data",
                             {[fn |-> "approve", spender |-> market_maker_contract_address,
                               amount |-> investment_amount]}) :
         /\ response' = resp
         /\ IF resp.performative # "STATE" \/ ~HasKey(resp, "data")
            THEN Attempt("_build_approval_tx", FALSE)
            ELSE /\ Attempt("_build_approval_tx", TRUE)
                 /\ pc' = AfterStep(BetSteps, "_build_approval_tx")
         /\ multisend_batches' = BuiltBatch(multisend_batches, resp, collateral_token)
    /\ UNCHANGED <<paramVars, betVars, multisend_data, safe_tx_hash, payload, sent,
                   reqVars, fetchVars, redeemVars>>

_calc_buy_amount ==
    /\ Bet("_calc_buy_amount")
    /\ \E resp \in Responses("RAW_TRANSACTION", "amount", 1..MaxInvest) :
         /\ response' = resp
         /\ IF resp.performative # "RAW_TRANSACTION" \/ ~HasKey(resp, "amount")
            THEN Attempt("_calc_buy_amount", FALSE) /\ UNCHANGED <<buy_amount>>
            ELSE /\ Attempt("_calc_buy_amount", TRUE)
                 /\ buy_amount' = resp.body.amount
                 /\ pc' = AfterStep(BetSteps, "_calc_buy_amount")
    /\ UNCHANGED <<paramVars, balance, txVars, payload, sent, reqVars, fetchVars,
                   redeemVars>>

_build_buy_tx ==
    /\ Bet("_build_buy_tx")
    /\ \E resp \in Responses("STATE", "data",
                             {[fn |-> "buy", investment_amount |-> investment_amount,
                               min_outcome_tokens_to_buy |-> buy_amount]}) :
         /\ response' = resp
         /\ IF resp.performative # "STATE" \/ ~HasKey(resp, "data")
            THEN Attempt("_build_buy_tx", FALSE)
            ELSE /\ Attempt("_build_buy_tx", TRUE)
                 /\ pc' = AfterStep(BetSteps, "_build_buy_tx")
         /\ multisend_batches' =
                BuiltBatch(multisend_batches, resp, market_maker_contract_address)
    /\ UNCHANGED <<paramVars, betVars, multisend_data, safe_tx_hash, payload, sent,
                   reqVars, fetchVars, redeemVars>>

Bet_build_multisend_data ==
    /\ Bet("_build_multisend_data")
    /\ encode_request' = [multi_send_txs |-> multisend_batches]
    /\ \E resp \in Responses("RAW_TRANSACTION", "data",
                             {MultisendTxData(multisend_batches)}) :
         /\ response' = resp
         /\ IF resp.performative # "RAW_TRANSACTION" \/ ~HasKey(resp, "data")
            THEN Attempt("_build_multisend_data", FALSE) /\ UNCHANGED <<multisend_data>>
            ELSE /\ Attempt("_build_multisend_data", TRUE)
                 /\ multisend_data' = FromHex(Strip0x(resp.body.data))
                 /\ pc' = AfterStep(BetSteps, "_build_multisend_data")
    /\ UNCHANGED <<paramVars, betVars, multisend_batches, safe_tx_hash, payload, sent,
                   hash_request, fetchVars, redeemVars>>

InvalidHashMissingOnly(resp) == ~HasKey(resp, "tx_hash")
\* tx_hash is None or len(tx_hash) != TX_HASH_LENGTH
InvalidHash(resp) ==
    ~HasKey(resp, "tx_hash") \/ resp.body.tx_hash.len # TX_HASH_LENGTH

Bet_build_safe_tx_hash ==
    /\ Bet("_build_safe_tx_hash")
    /\ hash_request' = SafeTxRequest(multisend_data)
    /\ \E resp \in Responses("STATE", "tx_hash", SafeTxHashes(hash_request')) :
         /\ response' = resp
         /\ IF resp.performative # "STATE"
            THEN Attempt("_build_safe_tx_hash", FALSE) /\ UNCHANGED <<safe_tx_hash, payload>>
            ELSE IF InvalidHash(resp)
            THEN Attempt("_build_safe_tx_hash", FALSE) /\ UNCHANGED <<safe_tx_hash, payload>>
            ELSE /\ Attempt("_build_safe_tx_hash", TRUE)
                 /\ safe_tx_hash' = Strip0x(resp.body.tx_hash)
                 \* the loop of _prepare_safe_tx ends: async_act builds the payload
                 /\ payload' = MultisigTxPayload(agent_address, None,
                                                 tx_hex(safe_tx_hash', multisend_data))
                 /\ pc' = "finish_behaviour"
    /\ UNCHANGED <<paramVars, betVars, multisend_batches, multisend_data, sent,
                   encode_request, fetchVars, redeemVars>>

finish_behaviour ==
    /\ pc = "finish_behaviour"
    /\ sent' = sent + 1
    /\ pc' = "done"
    /\ UNCHANGED <<paramVars, betVars, txVars, payload, retryVars, reqVars, fetchVars,
                   redeemVars>>

\* ---------------------------------------------------------------- redeeming
\* The markets of the trades: a condition (and its question) with the index of
\* its current answer and the time the market was created.
FPMMs ==
    {[condition_id |-> 1, current_answer_index |-> 0, creationTimestamp |-> 1],
     [condition_id |-> 2, current_answer_index |-> 1, creationTimestamp |-> 2]}

OutcomeIndices == {0, 1}
\* claimable amounts: the largest dust amount and the smallest that is not dust
Amounts == {dust_threshold - 1, dust_threshold}
\* the payouts check_redeemed reports: nothing paid (0) or something paid
PayoutValues == {0, 1}

\* RedeemInfo(**trade) for the trade with the given transaction hash
RedeemInfos(hash) ==
    {[transactionHash |-> hash, outcomeIndex |-> o, claimable_amount |-> a,
      condition_id |-> f.condition_id, current_answer_index |-> f.current_answer_index,
      creationTimestamp |-> f.creationTimestamp] :
        o \in OutcomeIndices, a \in Amounts, f \in FPMMs}

\* A page of trades: the next `n` trades, each with a transaction hash of its own.
RECURSIVE Chunks(_, _)
Chunks(first, n) ==
    IF n = 0 THEN {<<>>}
    ELSE {<<info>> \o more : info \in RedeemInfos(first), more \in Chunks(first + 1, n - 1)}

\* QueryingBehaviour._prepare_fetching: whether there is a page to (re)fetch
can_proceed ==
    IF fetch_status \in {"SUCCESS", "NONE"} THEN creators_left > 0
    ELSE fetch_status # "FAIL"

Redeem(step) == behaviour = "redeem" /\ pc = step

\* one turn of the loop of _get_redeem_info
_fetch_redeem_info ==
    /\ Redeem("_get_redeem_info")
    /\ can_proceed
    /\ invoked' = invoked \cup {"_fetch_redeem_info"}
    /\ UNCHANGED <<succeeded, failures, response>>
    /\ creators_left' = IF fetch_status \in {"SUCCESS", "NONE"}
                        THEN creators_left - 1 ELSE creators_left
    /\ \/ \* no usable response: the page is fetched again, or the retries are spent
          /\ fetch_status' \in {"IN_PROGRESS", "FAIL"}
          /\ UNCHANGED <<redeem_info, fetched>>
       \/ \E n \in 0..(MaxCand - Len(fetched)) :
            \E trades_market_chunk \in Chunks(Len(fetched) + 1, n) :
              /\ fetch_status' = "SUCCESS"
              /\ redeem_info' = redeem_info \o trades_market_chunk
              /\ fetched' = fetched \o trades_market_chunk
    /\ UNCHANGED <<paramVars, pc, betVars, txVars, payload, sent, reqVars, payouts, idx,
                   current_redeem_info, already_resolved, from_block, built_data,
                   expected_winnings, winnings_found, resolutions>>

redeem_info_kept_on_failure(status, infos) == infos
\* _get_redeem_info after its loop: anything but success empties the candidates
redeem_info_after_fetching(status, infos) ==
    IF status # "SUCCESS" THEN <<>> ELSE infos

\* the end of _get_redeem_info
_get_redeem_info ==
    /\ Redeem("_get_redeem_info")
    /\ ~can_proceed
    /\ redeem_info' = redeem_info_after_fetching(fetch_status, redeem_info)
    /\ pc' = "_check_already_redeemed"
    /\ UNCHANGED <<paramVars, betVars, txVars, payload, sent, retryVars, reqVars, fetchVars,
                   payouts, idx, current_redeem_info, already_resolved, from_block,
                   built_data, expected_winnings, winnings_found, resolutions>>

RECURSIVE SumValues(_, _)
\* sum(payouts.values())
SumValues(f, keys) ==
    IF keys = {} THEN 0
    ELSE LET k == CHOOSE x \in keys : TRUE IN f[k] + SumValues(f, keys \ {k})

Hashes(infos) == {infos[i].transactionHash : i \in 1..Len(infos)}

\* the filter of _clean_redeem_info
CleanRedeemInfo(infos, p) ==
    IF SumValues(p, DOMAIN p) > 0
    THEN SelectSeq(infos, LAMBDA info : info.transactionHash \notin DOMAIN p)
    ELSE infos

\* _clean_redeem_info, around _check_already_redeemed
_check_already_redeemed ==
    /\ Redeem("_check_already_redeemed")
    /\ \/ Attempt("_check_already_redeemed", FALSE) /\ UNCHANGED <<payouts, redeem_info>>
       \/ \E keys \in SUBSET Hashes(redeem_info) : \E p \in [keys -> PayoutValues] :
            /\ Attempt("_check_already_redeemed", TRUE)
            /\ payouts' = p
            /\ redeem_info' = CleanRedeemInfo(redeem_info, p)
            /\ pc' = "_process_candidate"
    /\ UNCHANGED <<paramVars, response, betVars, txVars, payload, sent, reqVars,
                   fetchVars, idx,
                   current_redeem_info, already_resolved, from_block, built_data,
                   expected_winnings, winnings_found, resolutions>>

_is_winning_position_ne(info) == info.outcomeIndex # info.current_answer_index
_is_winning_position(info) == info.outcomeIndex = info.current_answer_index

_is_dust_never(info) == FALSE
_is_dust(info) == info.claimable_amount < dust_threshold

\* the head of the loop of _prepare_safe_tx, and _process_candidate up to its
\* first request
_process_candidate ==
    /\ Redeem("_process_candidate")
    /\ IF idx = Len(redeem_info)
       THEN pc' = "_prepare_safe_tx" /\ UNCHANGED <<idx, current_redeem_info>>
       ELSE LET redeem_candidate == redeem_info[idx + 1] IN
            /\ current_redeem_info' = redeem_candidate
            /\ idx' = idx + 1
            /\ IF ~_is_winning_position(redeem_candidate) \/ _is_dust(redeem_candidate)
               THEN pc' = "_process_candidate"
               ELSE pc' = "_check_already_resolved"
    /\ UNCHANGED <<paramVars, betVars, txVars, payload, sent, retryVars, reqVars, fetchVars,
                   redeem_info, payouts, already_resolved, from_block, built_data,
                   expected_winnings, winnings_found, resolutions>>

SingleRedeemStepsInverted(resolved) ==
    (IF resolved THEN <<"_build_resolve_data">> ELSE <<>>)
        \o <<"_build_claim_data", "_build_redeem_data">>
\* the steps of _prepare_single_redeem after the resolution query
SingleRedeemSteps(resolved) ==
    (IF resolved THEN <<>> ELSE <<"_build_resolve_data">>)
        \o <<"_build_claim_data", "_build_redeem_data">>

_check_already_resolved ==
    /\ Redeem("_check_already_resolved")
    /\ \/ /\ Attempt("_check_already_resolved", FALSE)
          /\ UNCHANGED <<already_resolved, resolutions>>
       \/ \E resolved \in BOOLEAN :
            /\ Attempt("_check_already_resolved", TRUE)
            /\ already_resolved' = resolved
            /\ resolutions' = Append(resolutions,
                   [transactionHash |-> current_redeem_info.transactionHash,
                    condition_id |-> current_redeem_info.condition_id,
                    resolved |-> resolved])
            /\ pc' = SingleRedeemSteps(already_resolved')[1]
    /\ UNCHANGED <<paramVars, response, betVars, txVars, payload, sent, reqVars, fetchVars,
                   redeem_info, payouts, idx, current_redeem_info, from_block, built_data,
                   expected_winnings, winnings_found>>

\* what the contracts answer for the three build requests
ResolveTx(info) == [fn |-> "resolve", question_id |-> info.condition_id]
ClaimWinningsTxPerAttempt(info, block) ==
    [fn |-> "claimWinnings", question_id |-> info.condition_id,
     from_block |-> IF failures = 0 THEN block ELSE [attempt |-> failures]]
ClaimWinningsTx(info, block) ==
    [fn |-> "claimWinnings", question_id |-> info.condition_id, from_block |-> block]
RedeemPositionsTx(info) ==
    [fn |-> "redeemPositions", condition_id |-> info.condition_id,
     collateral_token |-> collateral_token]

_build_resolve_data ==
    /\ Redeem("_build_resolve_data")
    /\ \/ Attempt("_build_resolve_data", FALSE) /\ UNCHANGED <<built_data, multisend_batches>>
       \/ /\ Attempt("_build_resolve_data", TRUE)
          /\ built_data' = ResolveTx(current_redeem_info)
          /\ multisend_batches' =
                Append(multisend_batches, MultisendBatch(realitio_proxy_address, built_data'))
          /\ pc' = AfterStep(SingleRedeemSteps(already_resolved), "_build_resolve_data")
    /\ UNCHANGED <<paramVars, response, betVars, multisend_data, safe_tx_hash, payload, sent,
                   reqVars, fetchVars, redeem_info, payouts, idx, current_redeem_info,
                   already_resolved, from_block, expected_winnings, winnings_found,
                   resolutions>>

_build_claim_data ==
    /\ Redeem("_build_claim_data")
    /\ \/ Attempt("_build_claim_data", FALSE) /\ UNCHANGED <<built_data, multisend_batches>>
       \/ /\ Attempt("_build_claim_data", TRUE)
          /\ built_data' = ClaimWinningsTx(current_redeem_info, from_block)
          /\ multisend_batches' =
                Append(multisend_batches, MultisendBatch(realitio_address, built_data'))
          /\ pc' = AfterStep(SingleRedeemSteps(already_resolved), "_build_claim_data")
    /\ UNCHANGED <<paramVars, response, betVars, multisend_data, safe_tx_hash, payload, sent,
                   reqVars, fetchVars, redeem_info, payouts, idx, current_redeem_info,
                   already_resolved, from_block, expected_winnings, winnings_found,
                   resolutions>>

\* the test that ends the loop of _prepare_safe_tx
BatchIsFull(batches, size) == Len(batches) = size

_expected_winnings_last_only(total, info) == info.claimable_amount
\* self._expected_winnings += self.current_redeem_info.claimable_amount
_expected_winnings(total, info) == total + info.claimable_amount

\* _build_redeem_data, and on its success the rest of _process_candidate and of
\* the loop turn of _prepare_safe_tx
_build_redeem_data ==
    /\ Redeem("_build_redeem_data")
    /\ \/ /\ Attempt("_build_redeem_data", FALSE)
          /\ UNCHANGED <<built_data, multisend_batches, expected_winnings,
                         winnings_found>>
       \/ /\ Attempt("_build_redeem_data", TRUE)
          /\ built_data' = RedeemPositionsTx(current_redeem_info)
          /\ multisend_batches' =
                Append(multisend_batches,
                       MultisendBatch(conditional_tokens_address, built_data'))
          /\ expected_winnings' = _expected_winnings(expected_winnings, current_redeem_info)
          /\ winnings_found' = TRUE
          /\ pc' = IF BatchIsFull(multisend_batches', redeeming_batch_size)
                   THEN "_prepare_safe_tx" ELSE "_process_candidate"
    /\ UNCHANGED <<paramVars, response, betVars, multisend_data, safe_tx_hash, payload, sent,
                   reqVars, fetchVars, redeem_info, payouts, idx, current_redeem_info,
                   already_resolved, from_block, resolutions>>

RedeemPayloadAlwaysSubmitted(redeem_tx_hex) ==
    MultisigTxPayload(agent_address, RedeemRound, redeem_tx_hex)
\* the payload of RedeemBehaviour.async_act for what _prepare_safe_tx returned
RedeemPayload(redeem_tx_hex) ==
    LET tx_submitter == IF redeem_tx_hex # None THEN RedeemRound ELSE None
    IN MultisigTxPayload(agent_address, tx_submitter, redeem_tx_hex)

\* _prepare_safe_tx after its loop
_prepare_safe_tx ==
    /\ Redeem("_prepare_safe_tx")
    /\ IF ~winnings_found
       THEN /\ payload' = RedeemPayload(None)
            /\ pc' = "finish_behaviour"
       ELSE pc' = "_build_multisend_data" /\ UNCHANGED payload
    /\ UNCHANGED <<paramVars, betVars, txVars, sent, retryVars, reqVars, fetchVars,
                   redeemVars>>

Redeem_build_multisend_data ==
    /\ Redeem("_build_multisend_data")
    /\ encode_request' = [multi_send_txs |-> multisend_batches]
    /\ \E resp \in Responses("RAW_TRANSACTION", "data",
                             {MultisendTxData(multisend_batches)}) :
         /\ response' = resp
         /\ IF resp.performative # "RAW_TRANSACTION" \/ ~HasKey(resp, "data")
            THEN Attempt("_build_multisend_data", FALSE) /\ UNCHANGED <<multisend_data>>
            ELSE /\ Attempt("_build_multisend_data", TRUE)
                 /\ multisend_data' = FromHex(Strip0x(resp.body.data))
                 /\ pc' = "_build_multisend_safe_tx_hash"
    /\ UNCHANGED <<paramVars, betVars, multisend_batches, safe_tx_hash, payload, sent,
                   hash_request, fetchVars, redeemVars>>

\* _build_multisend_safe_tx_hash, and on its success the end of _prepare_safe_tx
\* and the payload of async_act
_build_multisend_safe_tx_hash ==
    /\ Redeem("_build_multisend_safe_tx_hash")
    /\ hash_request' = SafeTxRequest(multisend_data)
    /\ \E resp \in Responses("STATE", "tx_hash", SafeTxHashes(hash_request')) :
         /\ response' = resp
         /\ IF resp.performative # "STATE" \/ ~HasKey(resp, "tx_hash")
            THEN /\ Attempt("_build_multisend_safe_tx_hash", FALSE)
                 /\ UNCHANGED <<safe_tx_hash, payload>>
            ELSE IF resp.body.tx_hash.len # TX_HASH_LENGTH
            THEN /\ Attempt("_build_multisend_safe_tx_hash", FALSE)
                 /\ UNCHANGED <<safe_tx_hash, payload>>
            ELSE /\ Attempt("_build_multisend_safe_tx_hash", TRUE)
                 /\ safe_tx_hash' = Strip0x(resp.body.tx_hash)
                 /\ payload' = RedeemPayload(tx_hex(safe_tx_hash', multisend_data))
                 /\ pc' = "finish_behaviour"
    /\ UNCHANGED <<paramVars, betVars, multisend_batches, multisend_data, sent,
                   encode_request, fetchVars, redeemVars>>

\* __init__ of the two behaviours
InitFields ==
    /\ balance = 0
    /\ buy_amount = 0
    /\ multisend_batches = <<>>
    /\ multisend_data = FromHex(HexStr(0, <<>>))
    /\ safe_tx_hash = HexStr(0, None)
    /\ payload = None
    /\ sent = 0
    /\ invoked = {}
    /\ succeeded = {}
    /\ failures = 0
    /\ response = None
    /\ encode_request = None
    /\ hash_request = None
    /\ fetch_status = "NONE"
    /\ fetched = <<>>
    /\ redeem_info = <<>>
    /\ payouts = <<>>
    /\ idx = 0
    /\ current_redeem_info = None
    /\ already_resolved = FALSE
    /\ from_block = DEFAULT_FROM_BLOCK
    /\ built_data = None
    /\ expected_winnings = 0
    /\ winnings_found = FALSE
    /\ resolutions = <<>>

Init ==
    /\ InitFields
    /\ \/ /\ behaviour = "bet"
          /\ pc = "_check_balance"
          /\ investment_amount \in 1..MaxInvest
          /\ redeeming_batch_size = 1
          /\ creators_left = 0
       \/ /\ behaviour = "redeem"
          /\ pc = "_get_redeem_info"
          /\ investment_amount = 1
          /\ redeeming_batch_size \in 1..MaxBatchSize
          /\ creators_left \in 0..MaxPages

Next ==
    \/ _check_balance
    \/ _build_approval_tx
    \/ _calc_buy_amount
    \/ _build_buy_tx
    \/ Bet_build_multisend_data
    \/ Bet_build_safe_tx_hash
    \/ _fetch_redeem_info
    \/ _get_redeem_info
    \/ _check_already_redeemed
    \/ _process_candidate
    \/ _check_already_resolved
    \/ _build_resolve_data
    \/ _build_claim_data
    \/ _build_redeem_data
    \/ _prepare_safe_tx
    \/ Redeem_build_multisend_data
    \/ _build_multisend_safe_tx_hash
    \/ finish_behaviour

Spec == Init /\ [][Next]_vars

\* The scheduler resumes the behaviour whenever a response is there; an
\* external call that is retried eventually succeeds, and the paged discovery
\* eventually leaves the in-progress status.
FairSpec ==
    /\ Spec
    /\ WF_vars(Next /\ failures' <= failures)
    /\ WF_vars(_fetch_redeem_info /\ fetch_status' # "IN_PROGRESS")

\* ----------------------------------------------------------- the block lookup
\* _get_block_number is a step of RedeemBehaviour that no run requests; it is
\* exercised on its own, from the point of a run where a claim is to be built.

\* the block the index holds for a timestamp
BlockAtTimestamp(ts) == 100 + ts

\* What _fetch_block_number can hand back on success: a block whose id spells
\* a number, a block whose id does not, a block without an id.
Blocks(ts) ==
    {[id |-> [digits |-> BlockAtTimestamp(ts)]],
     [id |-> [text |-> "0x"]],
     [timestamp |-> ts]}

\* the from_block setter: int(from_block), the default on ValueError
from_block_setter(value) ==
    IF "digits" \in DOMAIN value THEN [number |-> value.digits] ELSE DEFAULT_FROM_BLOCK

_get_block_number ==
    /\ Redeem("_get_block_number")
    /\ LET market_timestamp == current_redeem_info.creationTimestamp IN
       \E status \in {"IN_PROGRESS", "SUCCESS", "FAIL"} :
         \E block \in Blocks(market_timestamp) :
           /\ fetch_status' = status
           /\ IF status = "IN_PROGRESS"
              THEN \* while True: the lookup is requested again
                   /\ invoked' = invoked \cup {"_get_block_number"}
                   /\ UNCHANGED <<pc, succeeded, failures, from_block>>
              ELSE /\ from_block' =
                         IF status = "SUCCESS"
                         THEN from_block_setter(IF "id" \in DOMAIN block THEN block.id
                                                ELSE DEFAULT_FROM_BLOCK)
                         ELSE from_block
                   \* return True, whatever the status
                   /\ Attempt("_get_block_number", TRUE)
                   /\ pc' = "_build_claim_data"
    /\ UNCHANGED <<paramVars, response, betVars, txVars, payload, sent, reqVars,
                   creators_left, fetched, redeem_info, payouts, idx,
                   current_redeem_info, already_resolved, built_data,
                   expected_winnings, winnings_found, resolutions>>

\* A run that has one candidate to redeem and has settled whether its condition
\* is resolved; from_block is the default or the block of an earlier lookup.
BlockInit ==
    /\ behaviour = "redeem"
    /\ pc = "_get_block_number"
    /\ investment_amount = 1
    /\ redeeming_batch_size \in 1..MaxBatchSize
    /\ balance = 0
    /\ buy_amount = 0
    /\ multisend_data = FromHex(HexStr(0, <<>>))
    /\ safe_tx_hash = HexStr(0, None)
    /\ payload = None
    /\ sent = 0
    /\ failures = 0
    /\ response = None
    /\ encode_request = None
    /\ hash_request = None
    /\ fetch_status = "SUCCESS"
    /\ creators_left = 0
    /\ payouts = <<>>
    /\ idx = 1
    /\ built_data = None
    /\ expected_winnings = 0
    /\ winnings_found = FALSE
    /\ from_block \in {DEFAULT_FROM_BLOCK, [number |-> BlockAtTimestamp(0)]}
    /\ \E info \in RedeemInfos(1) :
         /\ _is_winning_position(info) /\ ~_is_dust(info)
         /\ current_redeem_info = info
         /\ fetched = <<info>>
         /\ redeem_info = <<info>>
         /\ \E resolved \in BOOLEAN :
              /\ already_resolved = resolved
              /\ resolutions = <<[transactionHash |-> info.transactionHash,
                                  condition_id |-> info.condition_id,
                                  resolved |-> resolved]>>
              /\ multisend_batches =
                    IF resolved THEN <<>>
                    ELSE <<MultisendBatch(realitio_proxy_address, ResolveTx(info))>>
              /\ succeeded = {"_check_already_redeemed", "_check_already_resolved"}
                                \cup (IF resolved THEN {} ELSE {"_build_resolve_data"})
              /\ invoked = succeeded \cup {"_fetch_redeem_info"}

BlockNext ==
    \/ _get_block_number
    \/ _build_claim_data
    \/ _build_redeem_data

BlockSpec == BlockInit /\ [][BlockNext]_vars

\* =================================================================== claims
RedeemBuildSteps == {"_build_resolve_data", "_build_claim_data", "_build_redeem_data"}
EncodeAndHashSteps ==
    {"_build_multisend_data", "_build_safe_tx_hash", "_build_multisend_safe_tx_hash"}
Emitted == pc \in {"finish_behaviour", "done"}

\* the list of function names of a batch
RECURSIVE Fns(_)
Fns(batches) ==
    IF batches = <<>> THEN <<>> ELSE <<Head(batches).data.fn>> \o Fns(Tail(batches))

\* C1: in a bet placement run, whenever the multisend encoding step has been
\* invoked, the batch it was given (and the batch held since) is exactly
\* [approve to the collateral token, buy to the market maker], whatever
\* attempts of whatever steps failed before.
C1_BetBatchAtEncode ==
    (behaviour = "bet" /\ "_build_multisend_data" \in invoked) =>
        /\ Fns(encode_request.multi_send_txs) = <<"approve", "buy">>
        /\ encode_request.multi_send_txs[1].to = collateral_token
        /\ encode_request.multi_send_txs[2].to = market_maker_contract_address
        /\ multisend_batches = encode_request.multi_send_txs

\* an encoding attempt has failed and is about to be repeated
C1_Witness ==
    /\ behaviour = "bet"
    /\ pc = "_build_multisend_data"
    /\ "_build_multisend_data" \in invoked

\* C2: in bet placement, once the balance check has given a balance below the
\* investment amount, no later step is ever invoked, the batch stays empty and
\* the payload that is emitted carries no transaction hex.
C2_InsufficientBalance ==
    (behaviour = "bet" /\ pc # "_check_balance" /\ balance < investment_amount) =>
        /\ invoked \subseteq {"_check_balance"}
        /\ multisend_batches = <<>>
        /\ Emitted
        /\ payload.tx_hash = None

C2_Witness ==
    /\ behaviour = "bet"
    /\ pc = "done"
    /\ balance < investment_amount
    /\ balance > 0

\* the entries a processed candidate owes to the batch, given what the
\* resolution query said about its condition
Group(r) ==
    (IF r.resolved THEN <<>> ELSE <<"resolve">>) \o <<"claimWinnings", "redeemPositions">>

RECURSIVE Groups(_)
Groups(rs) == IF rs = <<>> THEN <<>> ELSE Group(Head(rs)) \o Groups(Tail(rs))

\* the condition each entry of the groups is about
RECURSIVE GroupConditions(_)
GroupConditions(rs) ==
    IF rs = <<>> THEN <<>>
    ELSE [i \in 1..Len(Group(Head(rs))) |-> Head(rs).condition_id]
             \o GroupConditions(Tail(rs))

EntryCondition(batch) ==
    IF batch.data.fn = "redeemPositions" THEN batch.data.condition_id
    ELSE batch.data.question_id

IsPrefix(a, b) == Len(a) <= Len(b) /\ a = SubSeq(b, 1, Len(a))

Position(infos, hash) == CHOOSE i \in 1..Len(infos) : infos[i].transactionHash = hash

\* C3: the redemption batch is the concatenation, in discovery order of the
\* processed candidates, of one group per candidate: [resolve, claim, redeem]
\* when the resolution query said not resolved, [claim, redeem] otherwise,
\* every entry of a group being about that candidate's condition.  While a
\* group is being built the batch is a prefix of that concatenation.
C3_RedeemBatchOrder ==
    behaviour = "redeem" =>
        /\ IsPrefix(Fns(multisend_batches), Groups(resolutions))
        /\ pc \notin RedeemBuildSteps => Fns(multisend_batches) = Groups(resolutions)
        /\ \A i \in 1..Len(multisend_batches) :
             EntryCondition(multisend_batches[i]) = GroupConditions(resolutions)[i]
        /\ \A i, j \in 1..Len(resolutions) :
             i < j => Position(fetched, resolutions[i].transactionHash)
                          < Position(fetched, resolutions[j].transactionHash)

\* an unresolved candidate followed by a resolved one, both in the final batch
C3_Witness ==
    /\ behaviour = "redeem"
    /\ pc = "done"
    /\ Len(resolutions) = 2
    /\ ~resolutions[1].resolved
    /\ resolutions[2].resolved
    /\ Len(multisend_batches) = 5

\* the candidates discovery hands to the idempotency filter
Candidates == IF fetch_status = "SUCCESS" THEN fetched ELSE <<>>
Filtered == behaviour = "redeem" /\ pc \notin {"_get_redeem_info", "_check_already_redeemed"}
Paid(hash) == hash \in DOMAIN payouts /\ payouts[hash] > 0

\* C4: after the idempotency filter the candidate list is the discovered list
\* without exactly the candidates whose hash has a payout above zero.
C4_FilterExact ==
    Filtered => redeem_info = SelectSeq(Candidates, LAMBDA c : ~Paid(c.transactionHash))

\* C5: the redemption batch never has more entries than redeeming_batch_size.
C5_BatchWithinCap ==
    behaviour = "redeem" => Len(multisend_batches) <= redeeming_batch_size

\* C6: once the batch has redeeming_batch_size entries or more, no resolution
\* query is made for a further candidate.
C6_NoCandidateAfterCap ==
    ~(/\ behaviour = "redeem"
      /\ pc = "_check_already_resolved"
      /\ Len(multisend_batches) >= redeeming_batch_size)

\* the loop of _prepare_safe_tx was left by its break
CutoffReached == winnings_found /\ Len(multisend_batches) = redeeming_batch_size
AfterLoop ==
    behaviour = "redeem"
        /\ pc \in {"_prepare_safe_tx", "_build_multisend_data",
                   "_build_multisend_safe_tx_hash", "finish_behaviour", "done"}
Winning(c) == c.outcomeIndex = c.current_answer_index
Eligible(c) == Winning(c) /\ c.claimable_amount >= dust_threshold
Contributed(c) ==
    \E i \in 1..Len(resolutions) : resolutions[i].transactionHash = c.transactionHash

\* C7: when the loop ends without the batch cutoff, a discovered candidate has
\* entries in the batch exactly when it has no payout above zero, is a winning
\* position and its claimable amount is not below the dust threshold.
C7_ContributesIffEligible ==
    (AfterLoop /\ ~CutoffReached) =>
        \A i \in 1..Len(Candidates) :
            LET c == Candidates[i] IN
            Contributed(c) <=> (~Paid(c.transactionHash) /\ Eligible(c))

\* C8: in a redemption run whose candidates (after the idempotency filter)
\* include no winning position at or above the dust threshold, the batch stays
\* empty, encode and hash are never invoked, and the payload carries no hex.
C8_NothingToRedeem ==
    (Filtered /\ \A i \in 1..Len(redeem_info) : ~Eligible(redeem_info[i])) =>
        /\ multisend_batches = <<>>
        /\ invoked \cap EncodeAndHashSteps = {}
        /\ Emitted => payload.tx_hash = None

\* a run over candidates none of which is eligible
C8_Witness ==
    /\ Filtered
    /\ pc = "done"
    /\ Len(redeem_info) = 2
    /\ \A i \in 1..Len(redeem_info) : ~Eligible(redeem_info[i])
    /\ Winning(redeem_info[1])
    /\ ~Winning(redeem_info[2])

\* C9: when discovery ends with a status other than success, the candidate
\* list is empty from then on, no resolve, claim or redeem call is requested
\* and the payload carries no hex.
C9_FailedDiscovery ==
    (behaviour = "redeem" /\ pc # "_get_redeem_info" /\ fetch_status # "SUCCESS") =>
        /\ redeem_info = <<>>
        /\ invoked \cap (RedeemBuildSteps \cup {"_check_already_resolved"}) = {}
        /\ multisend_batches = <<>>
        /\ Emitted => payload.tx_hash = None

\* a page was accumulated before discovery failed
C9_Witness ==
    /\ behaviour = "redeem"
    /\ pc = "done"
    /\ fetch_status = "FAIL"
    /\ Len(fetched) > 0
    /\ \E i \in 1..Len(fetched) : Eligible(fetched[i])

\* C10: a redemption run hands over one payload, no more, and has handed it
\* over when it is complete; in it the submitter is set exactly when the hex
\* is, and the hex is set exactly when the batch has entries.
C10_OnePayload ==
    behaviour = "redeem" =>
        /\ sent <= 1
        /\ pc = "done" <=> sent = 1
        /\ Emitted =>
             /\ payload.tx_submitter # None <=> payload.tx_hash # None
             /\ payload.tx_hash # None <=> multisend_batches # <<>>

C10_Witness ==
    /\ behaviour = "redeem"
    /\ pc = "done"
    /\ payload.tx_hash # None
    /\ payload.tx_submitter = RedeemRound

\* C11: in bet placement the hash is requested with a native value of zero,
\* the gas constant, the multisend address as target, delegate-call as the
\* operation and the multisend data the encoding step stored; the emitted hex
\* is built from those same values and from the hash obtained for them.
C11_HashRequestAndHex ==
    behaviour = "bet" =>
        /\ "_build_safe_tx_hash" \in invoked =>
             /\ hash_request.value = 0
             /\ hash_request.safe_tx_gas = SAFE_GAS
             /\ hash_request.to_address = multisend_address
             /\ hash_request.operation = DELEGATE_CALL
             /\ hash_request.data = multisend_data
             /\ multisend_data =
                    FromHex(Strip0x(MultisendTxData(encode_request.multi_send_txs)))
        /\ (Emitted /\ payload.tx_hash # None) =>
             /\ payload.tx_hash.ether_value = hash_request.value
             /\ payload.tx_hash.safe_tx_gas = hash_request.safe_tx_gas
             /\ payload.tx_hash.to_address = hash_request.to_address
             /\ payload.tx_hash.operation = hash_request.operation
             /\ payload.tx_hash.data = hash_request.data
             /\ payload.tx_hash.safe_tx_hash = safe_tx_hash
             /\ safe_tx_hash.text = hash_request
             /\ safe_tx_hash.len = TX_HASH_LENGTH - 2

\* a bet whose hex, over the encoding of a batch of two entries, was handed over
C11_Witness ==
    /\ behaviour = "bet"
    /\ pc = "done"
    /\ payload.tx_hash # None
    /\ hash_request.data.nbytes = 2

\* the steps of a bet placement run, in the order the workflow names them
BetOrder ==
    <<"_check_balance", "_build_approval_tx", "_calc_buy_amount", "_build_buy_tx",
      "_build_multisend_data", "_build_safe_tx_hash">>

\* C12: in a bet placement run the steps check-balance, build-approval,
\* quote-buy-amount, build-buy, encode-multisend and compute-hash are invoked
\* in that order: a step has been invoked only if every earlier one has
\* returned success, a step that returned false is the one invoked next, and
\* a step that returned success is never the one invoked next.
C12_BetStepOrder ==
    behaviour = "bet" =>
        /\ succeeded \subseteq invoked
        /\ invoked \subseteq {BetOrder[i] : i \in 1..Len(BetOrder)}
        /\ \A i \in 1..Len(BetOrder) :
             BetOrder[i] \in invoked =>
                 \A j \in 1..(i - 1) : BetOrder[j] \in succeeded
        /\ \A step \in invoked \ succeeded : pc = step
        /\ failures > 0 => pc \in invoked \ succeeded
        /\ \A step \in succeeded : pc # step

\* the hash step has failed after the five steps before it succeeded
C12_Witness ==
    /\ behaviour = "bet"
    /\ pc = "_build_safe_tx_hash"
    /\ failures > 0
    /\ Cardinality(succeeded) = 5

HashSteps == {"_build_safe_tx_hash", "_build_multisend_safe_tx_hash"}

\* the steps a run must have completed before it can hand over a hex
RequiredSteps ==
    IF behaviour = "bet" THEN {BetOrder[i] : i \in 1..Len(BetOrder)}
    ELSE {"_check_already_redeemed", "_check_already_resolved", "_build_claim_data",
          "_build_redeem_data", "_build_multisend_data", "_build_multisend_safe_tx_hash"}

\* C13: there is no attempt cutoff.  However many times in a row a step of
\* either workflow has failed, no payload exists, nothing was handed over and
\* the run is still at that step; every failure leaves the run at the step
\* that failed; and a payload with a hex appears only in the turn in which the
\* hash step returns success, after every required step has returned success.
C13_NoCutoff ==
    /\ [](failures > 0 =>
            /\ pc \in invoked
            /\ ~Emitted
            /\ payload = None
            /\ sent = 0)
    /\ []((Emitted /\ payload.tx_hash # None) => RequiredSteps \subseteq succeeded)
    /\ [][/\ failures' > failures => (pc' = pc /\ payload' = None /\ sent' = 0)
          /\ (payload' # payload /\ payload'.tx_hash # None) =>
                (pc \in HashSteps /\ pc \in succeeded' /\ failures' = 0)]_vars

\* a redemption step has failed MaxFailures times in a row
C13_Witness ==
    /\ behaviour = "redeem"
    /\ pc = "_build_claim_data"
    /\ failures = MaxFailures

\* C14 as stated: in bet placement a failed balance check, or a step that has
\* failed again after being retried, has aborted the run, which has emitted a
\* payload with no transaction hex.
C14_FailureAborts ==
    (/\ behaviour = "bet"
     /\ \/ pc = "_check_balance" /\ failures > 0
        \/ failures = MaxFailures) =>
        (Emitted /\ payload.tx_hash = None)

\* C14, amended: in bet placement a failure never aborts the run.  While a step
\* is failing the run stays at that step with no payload; the only payload
\* with no transaction hex is the one emitted after the balance check has
\* succeeded and found the balance below the investment amount.
C14_FailureRetried ==
    behaviour = "bet" =>
        /\ failures > 0 =>
             /\ pc \in invoked \ succeeded
             /\ ~Emitted
             /\ payload = None
        /\ (Emitted /\ payload.tx_hash = None) =>
             /\ invoked = {"_check_balance"}
             /\ succeeded = {"_check_balance"}
             /\ balance < investment_amount

\* the buy call has failed again after being retried, and the run is still there
C14_Witness ==
    /\ behaviour = "bet"
    /\ pc = "_build_buy_tx"
    /\ failures = MaxFailures
    /\ payload = None

\* the performative and the body field each bet placement step expects
Expected(step) ==
    CASE step = "_check_balance" -> <<"RAW_TRANSACTION", "balance">>
      [] step = "_build_approval_tx" -> <<"STATE", "data">>
      [] step = "_calc_buy_amount" -> <<"RAW_TRANSACTION", "amount">>
      [] step = "_build_buy_tx" -> <<"STATE", "data">>
      [] step = "_build_multisend_data" -> <<"RAW_TRANSACTION", "data">>
      [] step = "_build_safe_tx_hash" -> <<"STATE", "tx_hash">>

\* the step at pc has just handled a response of the wrong performative, or one
\* whose body lacks the expected field
HandledBadResponse ==
    /\ behaviour = "bet"
    /\ pc # "finish_behaviour"
    /\ \/ response'.performative # Expected(pc)[1]
       \/ Expected(pc)[2] \notin DOMAIN response'.body

\* C15: a bet placement step that receives a response of the wrong
\* performative, or one whose expected body field is missing, returns false
\* (it is counted as a failure and is the step invoked next) and leaves the
\* balance, the buy amount, the batch, the stored multisend data and the
\* stored safe tx hash as they were.
C15_BadResponseChangesNothing ==
    [][HandledBadResponse =>
          /\ failures' = failures + 1
          /\ succeeded' = succeeded
          /\ pc' = pc
          /\ UNCHANGED <<balance, buy_amount, multisend_batches, multisend_data,
                         safe_tx_hash>>]_vars

\* the buy call has just received a response of the right performative whose
\* body lacks the data, with the approval call in the batch
C15_Witness ==
    /\ behaviour = "bet"
    /\ pc = "_build_buy_tx"
    /\ failures > 0
    /\ response.performative = "STATE"
    /\ response.body = None
    /\ Len(multisend_batches) = 1

\* what the resolution query answered for a processed candidate
Answer(c) ==
    resolutions[CHOOSE i \in 1..Len(resolutions) :
                    resolutions[i].transactionHash = c.transactionHash].resolved

\* the entries one candidate adds, as a function of the candidate and of the
\* answer about its condition alone
ExpectedGroup(c, resolved) ==
    (IF resolved THEN <<>>
     ELSE <<[to |-> realitio_proxy_address, value |-> 0,
             data |-> [fn |-> "resolve", question_id |-> c.condition_id]]>>)
    \o <<[to |-> realitio_address, value |-> 0,
          data |-> [fn |-> "claimWinnings", question_id |-> c.condition_id,
                    from_block |-> DEFAULT_FROM_BLOCK]],
         [to |-> conditional_tokens_address, value |-> 0,
          data |-> [fn |-> "redeemPositions", condition_id |-> c.condition_id,
                    collateral_token |-> collateral_token]]>>

\* the batch of a complete run, as a function of the candidates left by the
\* filter, the answers and the batch size alone
RECURSIVE ExpectedBatch(_, _)
ExpectedBatch(infos, acc) ==
    IF infos = <<>> THEN acc
    ELSE LET c == Head(infos) IN
         IF ~Eligible(c) THEN ExpectedBatch(Tail(infos), acc)
         ELSE IF ~Contributed(c) THEN Append(acc, [unanswered |-> c.transactionHash])
         ELSE LET batch == acc \o ExpectedGroup(c, Answer(c)) IN
              IF Len(batch) = redeeming_batch_size THEN batch
              ELSE ExpectedBatch(Tail(infos), batch)

RunBatch == ExpectedBatch(CleanRedeemInfo(Candidates, payouts), <<>>)

\* C16: a redemption run is a function of its inputs.  Once its loop is over,
\* the batch is the one determined by the discovered candidates, the payout
\* map, the resolution answers and the batch size alone; the encoding is
\* requested for that batch and the hash over its encoding, whichever attempts
\* failed and however often.  Hence two runs with the same inputs agree.
C16_RunIsFunctionOfInputs ==
    AfterLoop =>
        /\ multisend_batches = RunBatch
        /\ "_build_multisend_data" \in invoked =>
               encode_request.multi_send_txs = RunBatch
        /\ "_build_multisend_safe_tx_hash" \in invoked =>
               hash_request.data = FromHex(Strip0x(MultisendTxData(RunBatch)))

\* two candidates are in the batch and the hash request has failed repeatedly
C16_Witness ==
    /\ behaviour = "redeem"
    /\ pc = "_build_multisend_safe_tx_hash"
    /\ failures = MaxFailures
    /\ Len(multisend_batches) = 5

\* C17: in both workflows the batch only grows at its end within a run (the
\* batch before a turn is a prefix of the batch after it), and once the
\* multisend encoding step has been invoked no turn changes the batch.
C17_AppendOnlyUntilEncoded ==
    [][/\ IsPrefix(multisend_batches, multisend_batches')
       /\ "_build_multisend_data" \in invoked =>
              multisend_batches' = multisend_batches]_vars

\* the encoding of a redemption batch of three entries has failed and is
\* about to be requested again
C17_Witness ==
    /\ behaviour = "redeem"
    /\ pc = "_build_multisend_data"
    /\ failures > 0
    /\ Len(multisend_batches) = 3
    /\ encode_request.multi_send_txs = multisend_batches

\* C18: when every retried external call eventually succeeds and the paged
\* discovery eventually leaves the in-progress status, every bet placement run
\* and every redemption run ends: from some point on it is complete and has
\* handed over exactly one payload.
C18_Terminates == <>[](pc = "done" /\ sent = 1 /\ payload # None)

\* a redemption run that is complete after a discovery of two pages
C18_Witness ==
    /\ behaviour = "redeem"
    /\ pc = "done"
    /\ sent = 1
    /\ fetch_status = "SUCCESS"
    /\ creators_left = 0
    /\ Len(fetched) = MaxCand

ClaimEntries ==
    {i \in 1..Len(multisend_batches) : multisend_batches[i].data.fn = "claimWinnings"}

\* C19: every claim-winnings call in the batch of a redemption run was built
\* after the block lookup had completed in that run, and with a from-block
\* that is a block number (not the default "earliest").
C19_ClaimUsesLookedUpBlock ==
    behaviour = "redeem" =>
        \A i \in ClaimEntries :
            /\ "_get_block_number" \in succeeded
            /\ multisend_batches[i].data.from_block # DEFAULT_FROM_BLOCK

\* C20: the block-number step reports success only for a lookup that ended in
\* success: a lookup that ended in failure is reported as a failure of the
\* step (which is then retried), so the from-block is never left at its
\* previous value by a step that reported success.
C20_FailedLookupIsReported ==
    (behaviour = "redeem" /\ "_get_block_number" \in succeeded) =>
        fetch_status = "SUCCESS"

\* C21: in bet placement the sufficiency guard is balance >= investment
\* amount.  Once the balance check has succeeded, a balance equal to or above
\* the investment amount never ends in a payload without a hex: the run goes
\* on to the approval and buy calls and what it emits carries a hex over a
\* batch of both; a payload without a hex is emitted only for a strictly
\* lower balance.
C21_GuardIsAtLeast ==
    (behaviour = "bet" /\ "_check_balance" \in succeeded) =>
        /\ balance >= investment_amount =>
             /\ pc # "_check_balance"
             /\ Emitted =>
                  /\ payload.tx_hash # None
                  /\ {"_build_approval_tx", "_build_buy_tx"} \subseteq succeeded
                  /\ Fns(multisend_batches) = <<"approve", "buy">>
        /\ balance < investment_amount =>
             /\ Emitted
             /\ payload.tx_hash = None
             /\ multisend_batches = <<>>

\* a bet with a balance exactly equal to the investment amount was handed over
C21_Witness ==
    /\ behaviour = "bet"
    /\ pc = "done"
    /\ balance = investment_amount
    /\ payload.tx_hash # None
    /\ Len(multisend_batches) = 2

\* the loop of _prepare_safe_tx is about to take a candidate that is not a
\* winning position or whose claimable amount is dust
SkipsCandidate ==
    /\ behaviour = "redeem"
    /\ pc = "_process_candidate"
    /\ idx < Len(redeem_info)
    /\ ~Eligible(redeem_info[idx + 1])

\* C22: processing a candidate that is not a winning position, or whose
\* claimable amount is below the dust threshold, requests nothing (no
\* resolution query, no build) and leaves the batch, the expected winnings,
\* the already-resolved flag and the winnings-found result as they were; the
\* loop goes on to the next candidate without the batch-size cutoff.
C22_SkippedCandidateFrame ==
    [][SkipsCandidate =>
          /\ invoked' = invoked
          /\ UNCHANGED <<multisend_batches, expected_winnings, already_resolved,
                         winnings_found, resolutions, built_data>>
          /\ idx' = idx + 1
          /\ pc' = "_process_candidate"]_vars

\* a candidate has just been skipped after an earlier one filled three entries
C22_Witness ==
    /\ behaviour = "redeem"
    /\ pc = "_process_candidate"
    /\ idx = 2
    /\ current_redeem_info = redeem_info[2]
    /\ ~Eligible(current_redeem_info)
    /\ winnings_found
    /\ Len(multisend_batches) = 3

ResolveEntries ==
    {i \in 1..Len(multisend_batches) : multisend_batches[i].data.fn = "resolve"}

HandledInvalidHash ==
    /\ Bet("_build_safe_tx_hash")
    /\ \/ "tx_hash" \notin DOMAIN response'.body
       \/ response'.body.tx_hash.len # TX_HASH_LENGTH

\* C24: the bet placement hash step stores a hash only from a response whose
\* tx_hash is exactly TX_HASH_LENGTH characters long; a missing hash or one of
\* another length is a failure of the step that leaves the stored hash as it
\* was.  So the stored hash is empty until the step has succeeded, and
\* TX_HASH_LENGTH - 2 characters long from then on.
C24_StoredHashLength ==
    /\ [](behaviour = "bet" =>
            IF "_build_safe_tx_hash" \in succeeded
            THEN safe_tx_hash.len = TX_HASH_LENGTH - 2
            ELSE safe_tx_hash = HexStr(0, None))
    /\ [][/\ HandledInvalidHash =>
               /\ failures' = failures + 1
               /\ pc' = pc
               /\ safe_tx_hash' = safe_tx_hash
          /\ (behaviour = "bet" /\ safe_tx_hash' # safe_tx_hash) =>
               /\ response'.body.tx_hash.len = TX_HASH_LENGTH
               /\ safe_tx_hash'.text = response'.body.tx_hash.text]_vars

\* the hash step has just been given a hash that is one character too long
C24_Witness ==
    /\ Bet("_build_safe_tx_hash")
    /\ failures > 0
    /\ response.performative = "STATE"
    /\ "tx_hash" \in DOMAIN response.body
    /\ response.body.tx_hash.len = TX_HASH_LENGTH + 1
    /\ safe_tx_hash = HexStr(0, None)

\* the positions of the redeemPositions entries of the batch
RedeemEntries ==
    {i \in 1..Len(multisend_batches) : multisend_batches[i].data.fn = "redeemPositions"}
\* the candidates of the list that are not skipped, in the order of the list
EligibleCandidates == SelectSeq(redeem_info, Eligible)
\* the candidates whose claim and redeem entries are both in the batch: a
\* candidate's redeem entry is the last entry of its group
Redeemed == SubSeq(EligibleCandidates, 1, Cardinality(RedeemEntries))
RECURSIVE SumClaimable(_)
SumClaimable(infos) ==
    IF infos = <<>> THEN 0
    ELSE Head(infos).claimable_amount + SumClaimable(Tail(infos))

\* C25: at every point of a redemption run the expected winnings are the sum
\* of the claimable amounts of the candidates whose claim and redeem entries
\* are in the batch, which are the first non-skipped candidates of the list,
\* one per redeem entry and in the order of the entries.
C25_WinningsMatchBatch ==
    behaviour = "redeem" =>
        /\ Cardinality(RedeemEntries) <= Len(EligibleCandidates)
        /\ Cardinality(ClaimEntries) \in
              {Cardinality(RedeemEntries), Cardinality(RedeemEntries) + 1}
        /\ \A k \in 1..Len(Redeemed) :
              \E i \in RedeemEntries :
                 /\ Cardinality({j \in RedeemEntries : j <= i}) = k
                 /\ multisend_batches[i].data.condition_id = Redeemed[k].condition_id
                 /\ multisend_batches[i - 1].data.fn = "claimWinnings"
        /\ expected_winnings = SumClaimable(Redeemed)

\* the first candidate was skipped with a claimable amount of its own, and the
\* second one has its claim and redeem entries in the batch
C25_Witness ==
    /\ behaviour = "redeem"
    /\ Len(redeem_info) = 2
    /\ idx = 2
    /\ ~Eligible(redeem_info[1])
    /\ redeem_info[1].claimable_amount > 0
    /\ Cardinality(RedeemEntries) = 1
    /\ expected_winnings = redeem_info[2].claimable_amount
====
